---- MODULE Spec2Model ----
(***************************************************************************)
(* Agent-X backend: the contextual-news pipeline.                          *)
(*                                                                         *)
(*   SmartNewsService      services/smart_news_service.py                  *)
(*   CacheManager          utils/caching.py (in-process memory_cache)      *)
(*   BaseNewsSource        services/news_sources/base_source.py            *)
(*   RSSNewsSource         services/news_sources/rss_source.py             *)
(*   GoogleNewsSource      news_sources/google_news_source.py              *)
(*                                                                         *)
(* One SmartNewsService is shared by all requests (routes/news_router.py   *)
(* line 18).  Requests are asyncio tasks on one event loop: an action of   *)
(* the model is the code that runs between two suspension points.  Time is *)
(* the wall clock (datetime.now()) in seconds, advancing in steps of       *)
(* TickSeconds.                                                            *)
(***************************************************************************)
EXTENDS Integers, Sequences, FiniteSets, TLC

VARIABLES
    now,           \* datetime.now(), seconds
    config,        \* SmartNewsService.sources, in insertion order: the NewsSource configs
    src,           \* source name -> last_fetch / fetch_count / error_count
    memory_cache,  \* CacheManager.memory_cache: key -> {value, expires}
    calls,         \* the get_contextual_news invocations, by call number
    written,       \* history: key -> the last set of that key (who, when, what)
    attempts,      \* history: source -> fetch_articles calls that passed the gate
    failedAtt,     \* history: source -> attempts whose network read failed or that raised
    got,           \* the last direct CacheManager.get: what it returned, and the history then
    gate,          \* the last direct can_fetch(): what it returned, and when
    proc,          \* one run of the content processor and the response built from it
    heap,          \* the payload dicts alive in the process, by object identity
    sched          \* NewsScheduler: is_running and its start_background_updates coroutines

vars == <<now, config, src, memory_cache, calls, written, attempts, failedAtt, got, gate,
          proc, heap, sched>>

----------------------------------------------------------------------------
(* Bounds of the model *)

MaxCalls == 2          \* get_contextual_news invocations in one behaviour
MaxTicks == 1          \* steps of the clock in one behaviour
MaxYield == 1          \* entries of one feed that parse into articles
MaxFetches == 3        \* record_fetch calls made directly on one source
TickSeconds == 7200    \* step of the clock
MaxBatch == 3          \* raw articles of a run, drawn freely from BatchArticles
LongBatch == 51        \* raw articles of a run of like articles
MaxInterests == 8      \* interests of a profile that occur in one article

(* Program constants *)

ttl_hours == 2         \* CacheManager(ttl_hours=2)
SecondsPerHour == 3600

ttl_seconds == ttl_hours * SecondsPerHour   \* caching.py line 19

None == -1             \* a None last_fetch or rate_limit

Horizon == MaxTicks * TickSeconds

----------------------------------------------------------------------------
(* Sources.  NewsSource: is_active defaults to True, rate_limit to None.    *)
(* SmartNewsService.sources holds the feeds of NEWS_SOURCES_CONFIG['rss']   *)
(* and then 'google_news'; the model keeps one or two of the feeds.         *)

NewsSource(name, is_active, rate_limit) ==
    [name |-> name, is_active |-> is_active, rate_limit |-> rate_limit]

GoogleConfig == NewsSource("google_news", TRUE, None)

SourceKind(s) == IF s = "google_news" THEN "google" ELSE "rss"

SourceNames(cfg) == {cfg[i].name : i \in DOMAIN cfg}

ConfigOf(cfg, s) == cfg[CHOOSE i \in DOMAIN cfg : cfg[i].name = s]

NewSource == [last_fetch |-> None, fetch_count |-> 0, error_count |-> 0]

----------------------------------------------------------------------------
(* BaseNewsSource *)

(* can_fetch with a strict comparison of the elapsed time *)
can_fetch_strict(c, st, t) ==
    IF ~c.is_active THEN FALSE
    ELSE IF c.rate_limit = None \/ c.rate_limit = 0 THEN TRUE
    ELSE IF st.last_fetch = None THEN TRUE
    ELSE (t - st.last_fetch) * c.rate_limit > SecondsPerHour

can_fetch(c, st, t) ==
    IF ~c.is_active THEN FALSE
    ELSE IF c.rate_limit = None \/ c.rate_limit = 0 THEN TRUE
    ELSE IF st.last_fetch = None THEN TRUE
    ELSE (t - st.last_fetch) * c.rate_limit >= SecondsPerHour

(* record_fetch that counts a failed fetch as an error only *)
record_fetch_errorOnly(st, success, t) ==
    [last_fetch  |-> t,
     fetch_count |-> IF success THEN st.fetch_count + 1 ELSE st.fetch_count,
     error_count |-> IF success THEN st.error_count ELSE st.error_count + 1]

record_fetch(st, success, t) ==
    [last_fetch  |-> t,
     fetch_count |-> st.fetch_count + 1,
     error_count |-> IF success THEN st.error_count ELSE st.error_count + 1]

(* get_health_score as the exact fraction <<numerator, denominator>> *)
get_health_score(st) ==
    IF st.fetch_count = 0 THEN <<1, 1>>
    ELSE <<st.fetch_count - st.error_count, st.fetch_count>>

----------------------------------------------------------------------------
(* Requests.  A profile is (profession, location, interests).  The second  *)
(* profession holds a lone surrogate code point (what json.loads gives for *)
(* an escaped D800): it cannot be encoded as UTF-8, so                     *)
(* urllib.parse.quote_plus raises UnicodeEncodeError on it, while logging  *)
(* and f-string formatting accept it.                                      *)

Profiles ==
    { [profession |-> "teacher",     location |-> "India", interests |-> <<"ai", "math">>],
      [profession |-> "teacher",     location |-> "India", interests |-> <<"math", "ai">>],
      [profession |-> "dev<U+D800>", location |-> "India", interests |-> <<>>] }

QuotePlusRaises(profession) == profession = "dev<U+D800>"

RECURSIVE Join(_, _)
(* sep.join(seq) *)
Join(seq, sep) ==
    IF Len(seq) = 0 THEN ""
    ELSE IF Len(seq) = 1 THEN seq[1]
    ELSE seq[1] \o sep \o Join(Tail(seq), sep)

(* f"news:{profession}:{location}:{':'.join(interests or [])}" *)
cache_key(profession, location, interests) ==
    "news:" \o profession \o ":" \o location \o ":" \o Join(interests, ":")

----------------------------------------------------------------------------
(* CacheManager, in-process backend: the memory_cache branch of get and set, *)
(* taken when neither redis nor diskcache is importable.  A payload is a    *)
(* record, never None, so NoValue stands for the None that get returns on a *)
(* miss.                                                                    *)

NoValue == [kind |-> "none"]

(* CacheGet with the expiry comparison turned around *)
CacheGet_expired(cache, key, t) ==
    IF key \in DOMAIN cache /\ cache[key].expires < t
    THEN cache[key].value
    ELSE NoValue

(* get: the value when the entry exists and entry['expires'] > now *)
CacheGet(cache, key, t) ==
    IF key \in DOMAIN cache /\ cache[key].expires > t
    THEN cache[key].value
    ELSE NoValue

(* get's effect on the map: an entry found expired is deleted *)
CacheAfterGet(cache, key, t) ==
    IF key \in DOMAIN cache /\ ~(cache[key].expires > t)
    THEN [k \in DOMAIN cache \ {key} |-> cache[k]]
    ELSE cache

(* CacheSet that keeps the expiry time of an entry it overwrites *)
CacheSet_keepExpiry(cache, key, value, t) ==
    [k \in DOMAIN cache \cup {key} |->
        IF k = key
        THEN [value |-> value,
              expires |-> IF key \in DOMAIN cache THEN cache[key].expires
                          ELSE t + ttl_seconds]
        ELSE cache[k]]

(* set: memory_cache[key] = {value, expires: now + ttl_seconds} *)
CacheSet(cache, key, value, t) ==
    [k \in DOMAIN cache \cup {key} |->
        IF k = key THEN [value |-> value, expires |-> t + ttl_seconds]
        ELSE cache[k]]

(* GuardedGet with the try block of get removed: the backend's exception    *)
(* leaves get                                                               *)
GuardedGet_unguarded(raises, cache, key, t) ==
    [raised |-> raises, value |-> IF raises THEN NoValue ELSE CacheGet(cache, key, t)]

(* get, lines 39-54: the backend read runs inside try; an exception of the  *)
(* backend is printed and None is returned.  raises: the backend raises on  *)
(* this read.                                                               *)
GuardedGet(raises, cache, key, t) ==
    [raised |-> FALSE, value |-> IF raises THEN NoValue ELSE CacheGet(cache, key, t)]

(* set, lines 58-75: the backend write runs inside try; an exception of the *)
(* backend is printed and False is returned, nothing having been stored.    *)
GuardedSet(raises, cache, key, value, t) ==
    [raised |-> FALSE, ok |-> ~raises,
     cache |-> IF raises THEN cache ELSE CacheSet(cache, key, value, t)]

----------------------------------------------------------------------------
(* Response payloads.  Articles are counted, not carried: total_articles is *)
(* len(processed_articles), raw_articles_fetched is len(raw_articles).      *)

(* articles is len(payload['articles']); error is metadata['error'], "" when *)
(* the metadata has no such key.                                            *)
Response(kind, total, raw, used, t, p) ==
    [kind |-> kind, articles |-> total,
     total_articles |-> total, raw_articles_fetched |-> raw,
     sources_used |-> used, last_updated |-> t,
     error |-> CASE kind = "empty" -> "No articles fetched from sources"
                 [] kind = "debug" -> "Articles fetched but processing failed"
                 [] kind = "error" -> "str(e)"
                 [] OTHER -> "",
     profession |-> p.profession, location |-> p.location, interests |-> p.interests]

NoProfile == [profession |-> "", location |-> "", interests |-> <<>>]

empty_response(t) == Response("empty", 0, 0, 0, t, NoProfile)

(* sources_used of the debug response is the number of distinct source_name *)
(* values among the raw articles                                            *)
debug_response(raw, used, t) == Response("debug", 0, raw, used, t, NoProfile)

(* _error_response, lines 233-245: what the except clause of line 120 returns *)
error_response(t) == Response("error", 0, 0, 0, t, NoProfile)

(* HandleException without the except clause: the exception reaches the     *)
(* caller                                                                   *)
HandleException_reraise(t) == [raised |-> TRUE, payload |-> NoValue]

(* lines 120-122: an Exception raised inside the try block of line 72 is    *)
(* logged and the error payload is returned                                 *)
HandleException(t) == [raised |-> FALSE, payload |-> error_response(t)]

----------------------------------------------------------------------------
(* Fetch tasks.  A task is one source.fetch_articles(...) coroutine:        *)
(*   st = "new"        created by the orchestrator, not yet run             *)
(*        "io"         suspended in its network reads                       *)
(*        "ret"        returned a list of n articles                        *)
(*        "exc"        ended with an exception (gather captures it)         *)
(* gate, failed, timed_out and started are history: whether the task passed *)
(* the adapter's own can_fetch check, whether a network read or parse of it *)
(* failed, whether that failure was the 30-second ClientTimeout, and when   *)
(* the task issued its network read (None if it did not).                   *)

NewTask(s) == [src |-> s, st |-> "new", n |-> 0, gate |-> FALSE, failed |-> FALSE,
               timed_out |-> FALSE, started |-> None]

(* _fetch_from_all_sources, lines 126-137: one task per source whose        *)
(* can_fetch() holds, in the order of self.sources                          *)
BuildFetchTasks(cfg, st, t) ==
    LET eligible == SelectSeq(cfg, LAMBDA c : can_fetch(c, st[c.name], t))
    IN  [i \in 1..Len(eligible) |-> NewTask(eligible[i].name)]

(* The first step of fetch_articles, up to its first network read: the      *)
(* adapter's own gate, and for the Google adapter _build_queries, which     *)
(* runs outside every try block.                                            *)
FirstStep(task, cfg, st, t, profession) ==
    IF ~can_fetch(ConfigOf(cfg, task.src), st[task.src], t)
    THEN [task EXCEPT !.st = "ret"]
    ELSE IF SourceKind(task.src) = "google" /\ QuotePlusRaises(profession)
    THEN [task EXCEPT !.st = "exc", !.gate = TRUE, !.failed = TRUE]
    ELSE [task EXCEPT !.st = "io", !.gate = TRUE, !.started = t]

(* RSSNewsSource.fetch_articles after its network read: what it records and *)
(* returns.  ok: the read and feedparser.parse succeeded and n entries were *)
(* parsed; a failing entry is skipped.  Otherwise the except clause runs.   *)
RssResult(ok, n) ==
    IF ok THEN [success |-> TRUE, n |-> n]
    ELSE [success |-> FALSE, n |-> 0]

(* _fetch_query_results builds each RawArticle with clean_html(...), a name *)
(* google_news_source.py never imports: every entry raises NameError inside *)
(* the per-entry try and is skipped, so a query yields no article.          *)
GoogleParsedEntries(entries) == 0

(* GoogleNewsSource.fetch_articles after its query loop: a failing query is *)
(* logged and skipped, and the fetch is recorded as a success either way.   *)
GoogleResult(ok, entries) ==
    [success |-> TRUE, n |-> IF ok THEN GoogleParsedEntries(entries) ELSE 0]

RECURSIVE MergeFrom(_, _)
MergeFrom(results, i) ==
    IF i > Len(results) THEN 0
    ELSE (IF results[i].st = "exc" THEN 0 ELSE results[i].n) + MergeFrom(results, i + 1)

(* MergeResults as if gather ran without return_exceptions: one exception  *)
(* fails the whole run and no article is merged                             *)
MergeResults_failfast(results) ==
    IF \E i \in DOMAIN results : results[i].st = "exc" THEN 0
    ELSE MergeFrom(results, 1)

(* lines 143-148: len(all_articles); a result that is an exception is       *)
(* logged and skipped                                                       *)
MergeResults(results) == MergeFrom(results, 1)

(* line 104: len([s for s in self.sources.values() if s.last_fetch]) *)
SourcesUsed(st) == Cardinality({s \in DOMAIN st : st[s].last_fetch # None})

(* line 227: the distinct source names among the raw articles *)
DebugSourcesUsed(results) ==
    Cardinality({results[i].src : i \in {j \in DOMAIN results :
                                          results[j].st = "ret" /\ results[j].n > 0}})

(* ShouldReadCache without the force_refresh test *)
ShouldReadCache_always(force_refresh) == TRUE

(* line 66: the cache is consulted only when force_refresh is false *)
ShouldReadCache(force_refresh) == ~force_refresh

----------------------------------------------------------------------------
(* get_contextual_news invocations.                                         *)
(*   st = "idle"       not made yet                                         *)
(*        "created"    missed the cache (or force_refresh), built its       *)
(*                     fetch tasks, about to await asyncio.gather           *)
(*        "gather"     suspended in asyncio.gather                          *)
(*        "done"       returned payload                                     *)
(*        "cancelled"  abandoned by its caller while suspended             *)
(*        "raised"     ended with an exception that reached its caller      *)
(* tasks holds fetch_tasks and then results, locals of                      *)
(* _fetch_from_all_sources that are gone once it returns.                   *)
(* History fields: readCache (the call consulted the cache), liveBy (the    *)
(* call that stored, less than the TTL before this call, the entry under    *)
(* this call's key; 0 if none), fanout (_fetch_from_all_sources ran),       *)
(* fetched (the sources whose fetch passed the adapter's gate), raised (a   *)
(* task ended with an exception), raw (len(raw_articles)), processed (the   *)
(* content processor ran), getRaised and setRaised (the cache backend       *)
(* raised on this call's read, on this call's write).                       *)

CallIds == 1..MaxCalls

IdleCall ==
    [st |-> "idle", profile |-> NoProfile, force_refresh |-> FALSE, key |-> "",
     start |-> 0, tasks |-> <<>>, payload |-> NoValue,
     readCache |-> FALSE, liveBy |-> 0, fanout |-> FALSE, fetched |-> {},
     raised |-> FALSE, raw |-> 0, processed |-> FALSE,
     getRaised |-> FALSE, setRaised |-> FALSE]

NoGet == [key |-> "", value |-> NoValue, age |-> None, expected |-> NoValue,
          afterExpiry |-> FALSE]

NoGate == [asked |-> FALSE, result |-> FALSE, at |-> 0, last |-> None]

(* the content processor has not been given a batch *)
NoProc == [st |-> "idle"]

(* no payload dict has been built *)
NoHeap == <<>>

(* NewsScheduler.__init__, line 16, and no start_background_updates call *)
NoSched == [is_running |-> FALSE, loops |-> <<>>, last_start |-> "none"]

(* the parts of the program a run does not exercise stay as constructed *)
Unused(p, h, s) == p = NoProc /\ h = NoHeap /\ s = NoSched

Sources == SourceNames(config)

(* The state after SmartNewsService() is constructed with the sources cfg. *)
Constructed(cfg) ==
    /\ now = 0
    /\ config = cfg
    /\ src = [s \in SourceNames(cfg) |-> NewSource]
    /\ memory_cache = <<>>
    /\ calls = [c \in CallIds |-> IdleCall]
    /\ written = <<>>
    /\ attempts = [s \in SourceNames(cfg) |-> 0]
    /\ failedAtt = [s \in SourceNames(cfg) |-> 0]
    /\ got = NoGet
    /\ gate = NoGate

(* One feed and the Google source; the feed as the repository configures it *)
(* (no rate limit) or limited to one request per hour.                      *)
MainConfigs ==
    { <<NewsSource("TechCrunch", TRUE, r), GoogleConfig>> : r \in {None, 1} }

Init == (\E cfg \in MainConfigs : Constructed(cfg)) /\ Unused(proc, heap, sched)

(* The wall clock advances by d seconds, up to limit. *)
Advance(d, limit) ==
    /\ now + d <= limit
    /\ now' = now + d
    /\ UNCHANGED <<config, src, memory_cache, calls, written, attempts, failedAtt, got, gate,
                   proc, heap, sched>>

Tick == Advance(TickSeconds, Horizon)

(* get_contextual_news, lines 53-75 and 126-140: up to the first suspension. *)
(* On a hit the cached payload is returned; otherwise the orchestrator       *)
(* checks every source's gate and creates the fetch coroutines.              *)
(* getRaises: the cache backend raises on the read of line 67, which is     *)
(* outside the try block of line 72.                                         *)
BeginWith(c, p, force, getRaises) ==
    /\ calls[c].st = "idle"
    /\ \A d \in CallIds : d < c => calls[d].st # "idle"
    /\ LET key    == cache_key(p.profession, p.location, p.interests)
           rd     == ShouldReadCache(force)
           res    == GuardedGet(rd /\ getRaises, memory_cache, key, now)
           cached == IF rd THEN res.value ELSE NoValue
           live   == IF key \in DOMAIN written /\ now - written[key].at < ttl_seconds
                     THEN written[key].by ELSE 0
           base   == [calls[c] EXCEPT !.profile = p, !.force_refresh = force,
                                      !.key = key, !.start = now,
                                      !.readCache = rd, !.liveBy = live,
                                      !.getRaised = rd /\ getRaises]
       IN  /\ memory_cache' = IF rd /\ ~getRaises
                              THEN CacheAfterGet(memory_cache, key, now)
                              ELSE memory_cache
           /\ calls' = [calls EXCEPT ![c] =
                 IF rd /\ res.raised
                 THEN [base EXCEPT !.st = "raised"]
                 ELSE IF cached # NoValue
                 THEN [base EXCEPT !.st = "done", !.payload = cached]
                 ELSE [base EXCEPT !.st = "created", !.fanout = TRUE,
                                   !.tasks = BuildFetchTasks(config, src, now)]]
    /\ UNCHANGED <<now, config, src, written, attempts, failedAtt, got, gate, proc, heap, sched>>

(* get_contextual_news with a cache backend that answers *)
Begin(c, p, force) == BeginWith(c, p, force, FALSE)

(* await asyncio.gather(...): the event loop runs the first step of each new *)
(* task, one after the other and with nothing in between (they were queued   *)
(* back to back), each up to its first network read.                         *)
TasksStart(c) ==
    /\ calls[c].st = "created"
    /\ LET new == [i \in DOMAIN calls[c].tasks |->
                      FirstStep(calls[c].tasks[i], config, src, now,
                                calls[c].profile.profession)]
           n(s, st) == Cardinality({i \in DOMAIN new : new[i].src = s /\ new[i].st = st})
       IN  /\ calls' = [calls EXCEPT ![c].st = "gather", ![c].tasks = new,
                  ![c].fetched = {s \in Sources : n(s, "io") + n(s, "exc") > 0},
                  ![c].raised = \E s \in Sources : n(s, "exc") > 0]
           /\ attempts' = [s \in Sources |-> attempts[s] + n(s, "io") + n(s, "exc")]
           /\ failedAtt' = [s \in Sources |-> failedAtt[s] + n(s, "exc")]
    /\ UNCHANGED <<now, config, src, memory_cache, written, got, gate, proc, heap, sched>>

(* How a network read ends: the response text arrives ("ok"), aiohttp       *)
(* raises a client error ("error"), or ClientTimeout(total=30) expires and  *)
(* asyncio.TimeoutError, an Exception, is raised ("timeout").               *)
ReadOutcomes == {"ok", "error", "timeout"}

(* A feed fetch ends: rss_source.py lines 27-48. *)
RssFinishWith(c, i, outcome, n) ==
    /\ calls[c].st = "gather"
    /\ i \in DOMAIN calls[c].tasks
    /\ calls[c].tasks[i].st = "io"
    /\ SourceKind(calls[c].tasks[i].src) = "rss"
    /\ LET s  == calls[c].tasks[i].src
           ok == outcome = "ok"
           r  == RssResult(ok, n)
       IN  /\ src' = [src EXCEPT ![s] = record_fetch(src[s], r.success, now)]
           /\ calls' = [calls EXCEPT ![c].tasks[i].st = "ret",
                                     ![c].tasks[i].n = r.n,
                                     ![c].tasks[i].failed = ~ok,
                                     ![c].tasks[i].timed_out = (outcome = "timeout")]
           /\ failedAtt' = [failedAtt EXCEPT ![s] = @ + (IF ok THEN 0 ELSE 1)]
    /\ UNCHANGED <<now, config, memory_cache, written, attempts, got, gate, proc, heap, sched>>

(* the feed fetch whose read either arrives or raises a client error *)
RssFinish(c, i, ok, n) == RssFinishWith(c, i, IF ok THEN "ok" ELSE "error", n)

(* The Google fetch ends: google_news_source.py lines 24-33.  ok is false   *)
(* when the network reads of its queries failed.                            *)
GoogleFinishWith(c, i, outcome, n) ==
    /\ calls[c].st = "gather"
    /\ i \in DOMAIN calls[c].tasks
    /\ calls[c].tasks[i].st = "io"
    /\ SourceKind(calls[c].tasks[i].src) = "google"
    /\ LET s  == calls[c].tasks[i].src
           ok == outcome = "ok"
           r  == GoogleResult(ok, n)
       IN  /\ src' = [src EXCEPT ![s] = record_fetch(src[s], r.success, now)]
           /\ calls' = [calls EXCEPT ![c].tasks[i].st = "ret",
                                     ![c].tasks[i].n = r.n,
                                     ![c].tasks[i].failed = ~ok,
                                     ![c].tasks[i].timed_out = (outcome = "timeout")]
           /\ failedAtt' = [failedAtt EXCEPT ![s] = @ + (IF ok THEN 0 ELSE 1)]
    /\ UNCHANGED <<now, config, memory_cache, written, attempts, got, gate, proc, heap, sched>>

(* the Google fetch whose reads either arrive or raise a client error *)
GoogleFinish(c, i, ok, n) == GoogleFinishWith(c, i, IF ok THEN "ok" ELSE "error", n)

(* The history of a set: who stored what under key, when, and whether the   *)
(* key's previous value had been stored at least the TTL before.            *)
Stored(key, by, value) ==
    [k \in DOMAIN written \cup {key} |->
        IF k = key
        THEN [by |-> by, at |-> now, value |-> value,
              afterExpiry |-> key \in DOMAIN written
                              /\ now - written[key].at >= ttl_seconds]
        ELSE written[k]]

(* asyncio.gather has every result: lines 142-151 and 76-118.  kept is the  *)
(* number of articles the content processor returns (each raw article is    *)
(* kept or dropped by its quality gate).                                    *)
(* setRaises: the cache backend raises on the write of line 115.             *)
MergeWith(c, kept, setRaises) ==
    /\ calls[c].st = "gather"
    /\ \A i \in DOMAIN calls[c].tasks : calls[c].tasks[i].st \in {"ret", "exc"}
    /\ LET raw == MergeResults(calls[c].tasks)
           p   == calls[c].profile
       IN  /\ kept \in 0..raw
           /\ IF raw = 0
              THEN /\ calls' = [calls EXCEPT ![c].st = "done", ![c].tasks = <<>>,
                                   ![c].raw = raw,
                                   ![c].payload = empty_response(now)]
                   /\ UNCHANGED <<memory_cache, written>>
              ELSE IF kept = 0
              THEN /\ calls' = [calls EXCEPT ![c].st = "done", ![c].tasks = <<>>,
                                   ![c].raw = raw, ![c].processed = TRUE,
                                   ![c].payload = debug_response(raw,
                                        DebugSourcesUsed(calls[c].tasks), now)]
                   /\ UNCHANGED <<memory_cache, written>>
              ELSE LET response == Response("ok", kept, raw, SourcesUsed(src), now, p)
                       res == GuardedSet(setRaises, memory_cache, calls[c].key,
                                         response, now)
                   IN  /\ calls' = [calls EXCEPT ![c].st = "done", ![c].tasks = <<>>,
                                       ![c].raw = raw, ![c].processed = TRUE,
                                       ![c].setRaised = setRaises,
                                       ![c].payload = IF res.raised
                                                      THEN HandleException(now).payload
                                                      ELSE response]
                       /\ memory_cache' = res.cache
                       /\ written' = IF res.ok THEN Stored(calls[c].key, c, response)
                                     ELSE written
    /\ UNCHANGED <<now, config, src, attempts, failedAtt, got, gate, proc, heap, sched>>

(* the run with a cache backend that answers *)
Merge(c, kept) == MergeWith(c, kept, FALSE)

(* asyncio.gather has every result, there are raw articles, and a later     *)
(* statement of the try block (lines 82-118: processing, to_dict, the slice  *)
(* by limit) raises an Exception: the except clause of line 120 runs and     *)
(* nothing is cached.                                                        *)
MergeRaises(c) ==
    /\ calls[c].st = "gather"
    /\ \A i \in DOMAIN calls[c].tasks : calls[c].tasks[i].st \in {"ret", "exc"}
    /\ MergeResults(calls[c].tasks) > 0
    /\ LET h == HandleException(now)
       IN  calls' = [calls EXCEPT ![c].st = IF h.raised THEN "raised" ELSE "done",
                                  ![c].tasks = <<>>,
                                  ![c].raw = MergeResults(calls[c].tasks),
                                  ![c].payload = h.payload]
    /\ UNCHANGED <<now, config, src, memory_cache, written, attempts, failedAtt, got, gate, proc, heap, sched>>

(* The caller abandons a suspended request: the request's task is cancelled, *)
(* asyncio.gather cancels its unfinished children, and CancelledError (not   *)
(* an Exception) passes through every except clause of the adapters.         *)
Cancel(c) ==
    /\ calls[c].st \in {"created", "gather"}
    /\ calls' = [calls EXCEPT ![c].st = "cancelled", ![c].tasks = <<>>]
    /\ UNCHANGED <<now, config, src, memory_cache, written, attempts, failedAtt, got, gate, proc, heap, sched>>

Next ==
    \/ Tick
    \/ \E c \in CallIds, p \in Profiles, force \in BOOLEAN : Begin(c, p, force)
    \/ \E c \in CallIds : TasksStart(c)
    \/ \E c \in CallIds, i \in DOMAIN config, ok \in BOOLEAN, n \in 0..MaxYield :
          RssFinish(c, i, ok, n)
    \/ \E c \in CallIds, i \in DOMAIN config, ok \in BOOLEAN, n \in 0..MaxYield :
          GoogleFinish(c, i, ok, n)
    \/ \E c \in CallIds, kept \in 0..(Len(config) * MaxYield) : Merge(c, kept)
    \/ \E c \in CallIds : Cancel(c)

Spec == Init /\ [][Next]_vars

----------------------------------------------------------------------------
(* One orchestrator run over two feeds and the Google source.               *)

FanoutConfigs ==
    { <<NewsSource("TechCrunch", TRUE, None), NewsSource("The Verge", a, None),
        GoogleConfig>> : a \in BOOLEAN }

InitFanout == (\E cfg \in FanoutConfigs : Constructed(cfg)) /\ Unused(proc, heap, sched)

NextFanout ==
    \/ Tick
    \/ \E p \in Profiles, force \in BOOLEAN : Begin(1, p, force)
    \/ TasksStart(1)
    \/ \E i \in DOMAIN config, ok \in BOOLEAN, n \in 0..MaxYield : RssFinish(1, i, ok, n)
    \/ \E i \in DOMAIN config, ok \in BOOLEAN, n \in 0..MaxYield : GoogleFinish(1, i, ok, n)
    \/ \E kept \in 0..(Len(config) * MaxYield) : Merge(1, kept)
    \/ Cancel(1)

SpecFanout == InitFanout /\ [][NextFanout]_vars

----------------------------------------------------------------------------
(* BaseNewsSource on its own: one source, its gate asked and its fetches    *)
(* recorded directly, the clock moving in quarter and half steps.           *)

GateConfigs ==
    { <<NewsSource("TechCrunch", a, r)>> : a \in BOOLEAN, r \in {None, 0, 1, 2} }

InitGate == (\E cfg \in GateConfigs : Constructed(cfg)) /\ Unused(proc, heap, sched)

(* source.can_fetch() *)
CanFetch(s) ==
    /\ gate' = [asked |-> TRUE, result |-> can_fetch(ConfigOf(config, s), src[s], now),
                at |-> now, last |-> src[s].last_fetch]
    /\ UNCHANGED <<now, config, src, memory_cache, calls, written, attempts, failedAtt, got, proc, heap, sched>>

(* source.record_fetch(success) *)
RecordFetch(s, success) ==
    /\ src[s].fetch_count < MaxFetches
    /\ src' = [src EXCEPT ![s] = record_fetch(src[s], success, now)]
    /\ UNCHANGED <<now, config, memory_cache, calls, written, attempts, failedAtt, got, gate, proc, heap, sched>>

NextGate ==
    \/ \E d \in {TickSeconds \div 4, TickSeconds \div 2} : Advance(d, Horizon)
    \/ \E s \in Sources : CanFetch(s)
    \/ \E s \in Sources, success \in BOOLEAN : RecordFetch(s, success)

SpecGate == InitGate /\ [][NextGate]_vars

----------------------------------------------------------------------------
(* CacheManager on its own: get and set called directly, the clock moving   *)
(* in half steps.                                                           *)

CacheKeys ==
    {cache_key(p.profession, p.location, p.interests) :
        p \in {q \in Profiles : q.profession = "teacher"}}

CacheValues == {Response("ok", k, k, 1, 0, NoProfile) : k \in 1..(MaxYield + 1)}

InitCache == Constructed(<<>>) /\ Unused(proc, heap, sched)

(* await cache_manager.get(key) *)
CacheManagerGet(key) ==
    /\ got' = [key |-> key, value |-> CacheGet(memory_cache, key, now),
               age |-> IF key \in DOMAIN written THEN now - written[key].at ELSE None,
               expected |-> IF key \in DOMAIN written THEN written[key].value ELSE NoValue,
               afterExpiry |-> key \in DOMAIN written /\ written[key].afterExpiry]
    /\ memory_cache' = CacheAfterGet(memory_cache, key, now)
    /\ UNCHANGED <<now, config, src, calls, written, attempts, failedAtt, gate, proc, heap, sched>>

(* await cache_manager.set(key, value) *)
CacheManagerSet(key, value) ==
    /\ memory_cache' = CacheSet(memory_cache, key, value, now)
    /\ written' = Stored(key, 0, value)
    /\ UNCHANGED <<now, config, src, calls, attempts, failedAtt, got, gate, proc, heap, sched>>

NextCache ==
    \/ Advance(TickSeconds \div 2, 2 * Horizon)
    \/ \E key \in CacheKeys : CacheManagerGet(key)
    \/ \E key \in CacheKeys, value \in CacheValues : CacheManagerSet(key, value)

SpecCache == InitCache /\ [][NextCache]_vars

----------------------------------------------------------------------------
(* The service over one feed and a cache backend (redis, diskcache) that    *)
(* may raise on any read and on any write; memory_cache is then the         *)
(* backend's store.  A statement after the fan-out may raise as well.       *)

BackendConfigs == { <<NewsSource("TechCrunch", TRUE, None)>> }

InitBackend == (\E cfg \in BackendConfigs : Constructed(cfg)) /\ Unused(proc, heap, sched)

NextBackend ==
    \/ Tick
    \/ \E c \in CallIds, p \in Profiles, force \in BOOLEAN, getRaises \in BOOLEAN :
          BeginWith(c, p, force, getRaises)
    \/ \E c \in CallIds : TasksStart(c)
    \/ \E c \in CallIds, i \in DOMAIN config, ok \in BOOLEAN, n \in 0..MaxYield :
          RssFinish(c, i, ok, n)
    \/ \E c \in CallIds, kept \in 0..(Len(config) * MaxYield), setRaises \in BOOLEAN :
          MergeWith(c, kept, setRaises)
    \/ \E c \in CallIds : MergeRaises(c)
    \/ \E c \in CallIds : Cancel(c)

SpecBackend == InitBackend /\ [][NextBackend]_vars

----------------------------------------------------------------------------
(* Requests whose fields contain the separator of the cache key.            *)

KeyProfiles ==
    { [profession |-> "teacher", location |-> "India", interests |-> <<"a:b">>],
      [profession |-> "teacher", location |-> "India", interests |-> <<"a", "b">>],
      [profession |-> "x:y",     location |-> "z",     interests |-> <<>>],
      [profession |-> "x",       location |-> "y:z",   interests |-> <<>>] }

NextKeys ==
    \/ Tick
    \/ \E c \in CallIds, p \in KeyProfiles, force \in BOOLEAN : Begin(c, p, force)
    \/ \E c \in CallIds : TasksStart(c)
    \/ \E c \in CallIds, i \in DOMAIN config, ok \in BOOLEAN, n \in 0..MaxYield :
          RssFinish(c, i, ok, n)
    \/ \E c \in CallIds, kept \in 0..(Len(config) * MaxYield) : Merge(c, kept)

SpecKeys == InitBackend /\ [][NextKeys]_vars

----------------------------------------------------------------------------
(* One request that its caller awaits to the end, every network read of it  *)
(* ending in one of ReadOutcomes.  The event loop runs every ready task,    *)
(* and a read that neither arrives nor fails is ended by its ClientTimeout  *)
(* after 30 seconds: each step of the request that is enabled is taken.     *)

NextTimeout ==
    \/ Tick
    \/ \E p \in Profiles, force \in BOOLEAN : Begin(1, p, force)
    \/ TasksStart(1)
    \/ \E i \in DOMAIN config, o \in ReadOutcomes, n \in 0..MaxYield :
          RssFinishWith(1, i, o, n)
    \/ \E i \in DOMAIN config, o \in ReadOutcomes, n \in 0..MaxYield :
          GoogleFinishWith(1, i, o, n)
    \/ \E kept \in 0..(Len(config) * MaxYield) : Merge(1, kept)

FairTimeout ==
    /\ WF_vars(TasksStart(1))
    /\ WF_vars(\E i \in DOMAIN config, o \in ReadOutcomes, n \in 0..MaxYield :
                  RssFinishWith(1, i, o, n))
    /\ WF_vars(\E i \in DOMAIN config, o \in ReadOutcomes, n \in 0..MaxYield :
                  GoogleFinishWith(1, i, o, n))
    /\ WF_vars(\E kept \in 0..(Len(config) * MaxYield) : Merge(1, kept))

SpecTimeout == InitFanout /\ [][NextTimeout]_vars /\ FairTimeout

----------------------------------------------------------------------------
(* NewsScheduler, news_scheduler.py.  sched.loops holds one record for each *)
(* start_background_updates coroutine that entered the while loop:          *)
(*   st = "news"      in _update_news_cache, awaiting get_contextual_news   *)
(*                    for popular combination number i (line 48)            *)
(*        "pause"     in _update_news_cache, in asyncio.sleep(10) after     *)
(*                    combination number i (line 55)                        *)
(*        "sleeping"  in asyncio.sleep(3600) (line 29)                      *)
(*        "exited"    left the while loop and returned                      *)
(* last_start tells how the last start_background_updates call went on:     *)
(* "returned" at line 21, or "started" a loop.                              *)

MaxLoops == 2
PopularCombinations == 6

InitScheduler == Constructed(<<>>) /\ Unused(proc, heap, sched)

(* start_background_updates() up to its first suspension: lines 20-28 and   *)
(* 41-48                                                                    *)
start_background_updates ==
    /\ sched.is_running \/ Len(sched.loops) < MaxLoops
    /\ sched' = IF sched.is_running
                THEN [sched EXCEPT !.last_start = "returned"]
                ELSE [sched EXCEPT !.is_running = TRUE, !.last_start = "started",
                                   !.loops = Append(@, [st |-> "news", i |-> 1])]
    /\ UNCHANGED <<now, config, src, memory_cache, calls, written, attempts, failedAtt,
                   got, gate, proc, heap>>

(* stop_background_updates(), lines 34-37 *)
stop_background_updates ==
    /\ sched' = [sched EXCEPT !.is_running = FALSE]
    /\ UNCHANGED <<now, config, src, memory_cache, calls, written, attempts, failedAtt,
                   got, gate, proc, heap>>

(* get_contextual_news returns or raises in loop l: lines 48-55 and 57-58.  *)
(* An Exception ends _update_news_cache, and line 29 is next.               *)
NewsDone(l, raises) ==
    /\ l \in DOMAIN sched.loops
    /\ sched.loops[l].st = "news"
    /\ sched' = [sched EXCEPT !.loops[l].st = IF raises THEN "sleeping" ELSE "pause"]
    /\ UNCHANGED <<now, config, src, memory_cache, calls, written, attempts, failedAtt,
                   got, gate, proc, heap>>

(* asyncio.sleep(10) ends in loop l: the next combination, or the end of    *)
(* _update_news_cache and line 29                                           *)
PauseDone(l) ==
    /\ l \in DOMAIN sched.loops
    /\ sched.loops[l].st = "pause"
    /\ sched' = IF sched.loops[l].i < PopularCombinations
                THEN [sched EXCEPT !.loops[l].st = "news", !.loops[l].i = @ + 1]
                ELSE [sched EXCEPT !.loops[l].st = "sleeping"]
    /\ UNCHANGED <<now, config, src, memory_cache, calls, written, attempts, failedAtt,
                   got, gate, proc, heap>>

(* asyncio.sleep(3600) ends in loop l: the while condition of line 26 reads *)
(* self.is_running                                                          *)
SleepDone(l) ==
    /\ l \in DOMAIN sched.loops
    /\ sched.loops[l].st = "sleeping"
    /\ sched' = IF sched.is_running
                THEN [sched EXCEPT !.loops[l].st = "news", !.loops[l].i = 1]
                ELSE [sched EXCEPT !.loops[l].st = "exited"]
    /\ UNCHANGED <<now, config, src, memory_cache, calls, written, attempts, failedAtt,
                   got, gate, proc, heap>>

NextScheduler ==
    \/ start_background_updates
    \/ stop_background_updates
    \/ \E l \in 1..MaxLoops, raises \in BOOLEAN : NewsDone(l, raises)
    \/ \E l \in 1..MaxLoops : PauseDone(l)
    \/ \E l \in 1..MaxLoops : SleepDone(l)

(* the event loop resumes every coroutine whose await has ended, and every  *)
(* get_contextual_news call and every sleep ends                            *)
FairScheduler ==
    \A l \in 1..MaxLoops :
        /\ WF_vars(\E raises \in BOOLEAN : NewsDone(l, raises))
        /\ WF_vars(PauseDone(l))
        /\ WF_vars(SleepDone(l))

SpecScheduler == InitScheduler /\ [][NextScheduler]_vars /\ FairScheduler

----------------------------------------------------------------------------
(* Callers of one service whose CacheManager runs on its memory backend.    *)
(* A payload is a Python dict: heap[ref] holds what the dict with identity  *)
(* ref contains now.  memory_cache[key]['value'] = value (caching.py line   *)
(* 69) stores the reference, and get returns entry['value'] (line 48), the  *)
(* same reference: in these runs the values of memory_cache are refs.       *)

MaxObjects == 3

(* the reference to the dict with identity id *)
Ref(id) == [kind |-> "ref", id |-> id]

(* the response dict of lines 98-112 with n articles: no article dict has   *)
(* the key productivity_suggestions                                         *)
ResponseDict(n, t) ==
    [articles |-> [i \in 1..n |-> [rank |-> i, productivity_suggestions |-> FALSE]],
     total_articles |-> n, last_updated |-> t]

(* NewsIntegrationService._enhance_news_for_user, lines 55-64: assigns      *)
(* article['productivity_suggestions'] in every article dict of news_data   *)
(* and returns news_data itself                                             *)
enhance_news_for_user(news_data) ==
    [news_data EXCEPT !.articles =
        [i \in DOMAIN @ |-> [@[i] EXCEPT !.productivity_suggestions = TRUE]]]

(* what the caller does with the dict it received: enhance it or only read  *)
AfterCaller(news_data, enhance) ==
    IF enhance THEN enhance_news_for_user(news_data) ELSE news_data

InitAlias == Constructed(<<>>) /\ Unused(proc, heap, sched)

(* One request that is served from the cache (lines 64-70), and its caller. *)
(* got records the payload as the service returned it, before the caller    *)
(* touched it, next to the payload the last set of the key wrote.           *)
CachedRequest(p, enhance) ==
    LET key == cache_key(p.profession, p.location, p.interests)
        ref == CacheGet(memory_cache, key, now)
    IN  /\ ref # NoValue
        /\ got' = [key |-> key, value |-> heap[ref.id],
                   age |-> now - written[key].at,
                   expected |-> written[key].value,
                   afterExpiry |-> written[key].afterExpiry]
        /\ heap' = [heap EXCEPT ![ref.id] = AfterCaller(@, enhance)]
        /\ UNCHANGED <<now, config, src, memory_cache, calls, written, attempts,
                       failedAtt, gate, proc, sched>>

(* One request that runs the fetch cycle (a miss, or force_refresh) and     *)
(* builds a response of n articles: lines 98-118, then its caller.          *)
FreshRequest(p, force, n, enhance) ==
    LET key == cache_key(p.profession, p.location, p.interests)
        ref == Ref(Len(heap) + 1)
    IN  /\ Len(heap) < MaxObjects
        /\ ~ShouldReadCache(force) \/ CacheGet(memory_cache, key, now) = NoValue
        /\ memory_cache' = CacheSet(IF ShouldReadCache(force)
                                    THEN CacheAfterGet(memory_cache, key, now)
                                    ELSE memory_cache, key, ref, now)
        /\ written' = Stored(key, 0, ResponseDict(n, now))
        /\ heap' = Append(heap, AfterCaller(ResponseDict(n, now), enhance))
        /\ UNCHANGED <<now, config, src, calls, attempts, failedAtt, got, gate,
                       proc, sched>>

NextAlias ==
    \/ Tick
    \/ \E p \in Profiles, enhance \in BOOLEAN : CachedRequest(p, enhance)
    \/ \E p \in Profiles, force \in BOOLEAN, n \in 1..MaxYield, enhance \in BOOLEAN :
          FreshRequest(p, force, n, enhance)

SpecAlias == InitAlias /\ [][NextAlias]_vars

----------------------------------------------------------------------------
(* ContentProcessor.  A raw article is kept by what the processor reads of  *)
(* it:                                                                      *)
(*   title_len, desc_len   len(title), len(description); desc_len is None   *)
(*                         for a description that is None                   *)
(*   spam                  title and description hold a phrase of           *)
(*                         spam_indicators                                  *)
(*   text_len              len(content_text)                                *)
(*   reputable             source_name holds a name of reputable_sources    *)
(*   published_at          seconds on the clock of now                      *)
(*   image                 image_url is set                                 *)
(*   prof, loc             the profile's profession, location occur in the  *)
(*                         text                                             *)
(*   interests             how many of the profile's interests occur in it  *)
(*   keys                  how many of its keywords are in the profession's *)
(*                         prof_keywords list                               *)
(*   category              what _classify_category finds in the text        *)
(* Scores are integer hundredths: 0.3 is 30.                                *)

TopArticles == 50      \* processed_articles[:50]
CategoryCap == 10      \* categories[category][:10]

(* Min that returns its first argument: no cap *)
Min_first(a, b) == a

(* min(a, b) *)
Min(a, b) == IF a < b THEN a ELSE b

(* _calculate_relevance_score, lines 245-274 *)
calculate_relevance_score(raw) ==
    LET profession == IF raw.prof THEN 30 ELSE 0
        location   == IF raw.loc THEN 20 ELSE 0
        interest   == Min(raw.interests * 5, 25)
        keywords   == Min(raw.keys * 5, 25)
    IN  Min(profession + location + interest + keywords, 100)

(* _calculate_quality_score, lines 276-304; age_hours < 48 is compared in   *)
(* seconds                                                                  *)
calculate_quality_score(raw, t) ==
    LET age == t - raw.published_at
    IN  Min(40 + (IF raw.text_len > 100 THEN 10 ELSE 0)
               + (IF raw.text_len > 300 THEN 15 ELSE 0)
               + (IF raw.reputable THEN 20 ELSE 0)
               + (IF age < 48 * SecondsPerHour THEN 10
                  ELSE IF age < 168 * SecondsPerHour THEN 5 ELSE 0)
               + (IF raw.image THEN 5 ELSE 0),
            100)

(* meets_quality_threshold that accepts every article *)
meets_quality_threshold_all(article) == TRUE

(* _meets_quality_threshold, lines 353-374, for a description that is a str *)
meets_quality_threshold(article) ==
    IF article.quality_score < 20 THEN FALSE
    ELSE IF article.title_len < 5 \/ article.desc_len < 10 THEN FALSE
    ELSE IF article.spam THEN FALSE
    ELSE TRUE

(* the None that _process_single_article returns *)
NoArticle == [st |-> "none"]

(* _process_single_article, lines 64-130.  With a description that is None  *)
(* len(article.description) raises TypeError (line 362, or line 124 when    *)
(* the title is short) and the except clause of line 128 returns None.      *)
process_single_article(raw, t) ==
    LET processed == [title_len |-> raw.title_len, desc_len |-> raw.desc_len,
                      spam |-> raw.spam, published_at |-> raw.published_at,
                      category |-> raw.category,
                      relevance_score |-> calculate_relevance_score(raw),
                      quality_score |-> calculate_quality_score(raw, t)]
    IN  IF raw.desc_len = None THEN NoArticle
        ELSE IF meets_quality_threshold(processed) THEN processed
        ELSE NoArticle

(* relevance_score * 0.6 + quality_score * 0.4, in thousandths *)
WeightedScore(a) == 6 * a.relevance_score + 4 * a.quality_score

SortKey(a, by) == IF by = "relevance" THEN a.relevance_score ELSE WeightedScore(a)

(* list.sort(key=..., reverse=True) is stable: an element comes behind the  *)
(* elements of a higher key and behind those of its own key that were ahead *)
(* of it                                                                    *)
SortDesc(seq, by) ==
    LET place == [i \in DOMAIN seq |->
                    1 + Cardinality({j \in DOMAIN seq :
                          \/ SortKey(seq[j], by) > SortKey(seq[i], by)
                          \/ (j < i /\ SortKey(seq[j], by) = SortKey(seq[i], by))})]
    IN  [p \in DOMAIN seq |-> seq[CHOOSE i \in DOMAIN seq : place[i] = p]]

(* SortByScore that leaves the list as it is *)
SortByScore_unsorted(seq) == seq

(* lines 58-61: processed_articles.sort(key=weighted score, reverse=True) *)
SortByScore(seq) == SortDesc(seq, "score")

(* seq[:n], n >= 0 *)
Take(seq, n) == IF n < Len(seq) THEN SubSeq(seq, 1, n) ELSE seq

(* lines 46-55: the articles that _process_single_article returns, in the   *)
(* order of the raw articles                                                *)
ProcessEach(raw_articles, t) ==
    SelectSeq([i \in DOMAIN raw_articles |-> process_single_article(raw_articles[i], t)],
              LAMBDA processed : processed # NoArticle)

(* process_articles, lines 45-62 *)
process_articles(raw_articles, t) ==
    Take(SortByScore(ProcessEach(raw_articles, t)), TopArticles)

(* CategoryGroup without the cap of 10 *)
CategoryGroup_uncapped(articles, c) ==
    SortDesc(SelectSeq(articles, LAMBDA a : a.category = c), "relevance")

(* lines 164-166: one group, sorted by relevance_score and cut to 10 *)
CategoryGroup(articles, c) ==
    Take(SortDesc(SelectSeq(articles, LAMBDA a : a.category = c), "relevance"),
         CategoryCap)

(* _organize_by_categories, lines 153-168 *)
organize_by_categories(articles) ==
    [c \in {articles[i].category : i \in DOMAIN articles} |-> CategoryGroup(articles, c)]

----------------------------------------------------------------------------
(* The second half of get_contextual_news on its own: a batch of raw        *)
(* articles is processed, the response is built and cached, and a later     *)
(* call is served from the cache.                                           *)

ProfKeywords == 3      \* entries of one prof_keywords list

Hours(h) == h * SecondsPerHour

PlainArticle ==
    [title_len |-> 20, desc_len |-> 40, spam |-> FALSE, text_len |-> 200,
     reputable |-> TRUE, published_at |-> 0 - Hours(10), image |-> TRUE,
     prof |-> TRUE, loc |-> FALSE, interests |-> 1, keys |-> 0,
     category |-> "technology"]

(* the articles that batches of up to MaxBatch are drawn from: two that     *)
(* differ in published_at only, one of high relevance and low quality, one  *)
(* with a short title, one that matches nothing of the profile              *)
BatchArticles ==
    { PlainArticle,
      [PlainArticle EXCEPT !.published_at = 0 - Hours(20)],
      [PlainArticle EXCEPT !.loc = TRUE, !.interests = 2, !.reputable = FALSE,
                           !.text_len = 50, !.image = FALSE, !.category = "education"],
      [PlainArticle EXCEPT !.title_len = 4],
      [PlainArticle EXCEPT !.prof = FALSE, !.interests = 0, !.text_len = 50,
                           !.reputable = FALSE, !.published_at = 0 - Hours(200)] }

RECURSIVE SeqsUpTo(_, _)
(* the sequences over S of length at most n *)
SeqsUpTo(S, n) ==
    IF n = 0 THEN {<<>>}
    ELSE LET shorter == SeqsUpTo(S, n - 1)
         IN  shorter \cup {Append(s, x) : s \in shorter, x \in S}

(* single articles over every value the scores distinguish *)
ScoringArticles ==
    { [PlainArticle EXCEPT !.text_len = l, !.reputable = r, !.published_at = 0 - age,
                           !.image = im, !.prof = pr, !.loc = lo,
                           !.interests = k, !.keys = m] :
        l \in {100, 101, 300, 301}, r \in BOOLEAN,
        age \in {Hours(48) - 1, Hours(48), Hours(168) - 1, Hours(168)},
        im \in BOOLEAN, pr \in BOOLEAN, lo \in BOOLEAN,
        k \in 0..MaxInterests, m \in 0..ProfKeywords }

(* single articles over every value the quality gate distinguishes *)
GateArticles ==
    { [PlainArticle EXCEPT !.title_len = tl, !.desc_len = dl, !.spam = sp] :
        tl \in {4, 5}, dl \in {None, 9, 10}, sp \in BOOLEAN }

(* n like articles, the i-th published i hours ago *)
LikeArticles(n) ==
    [i \in 1..n |-> [PlainArticle EXCEPT !.published_at = 0 - Hours(i),
                                         !.interests = i % 3]]

Batches ==
    SeqsUpTo(BatchArticles, MaxBatch)
    \cup {<<a>> : a \in ScoringArticles \cup GateArticles}
    \cup {LikeArticles(n) : n \in (MaxBatch + 1)..LongBatch}

(* the limit argument: the router accepts 1..100 *)
Limits == {1, 2, CategoryCap, TopArticles}

ProcKey == cache_key("teacher", "India", <<>>)

InitProcessor ==
    /\ Constructed(<<>>)
    /\ \E batch \in Batches :
          proc = [st |-> "raw", raw_articles |-> batch, processed_articles |-> <<>>,
                  payload |-> NoValue, served |-> NoValue]
    /\ heap = NoHeap
    /\ sched = NoSched

(* lines 98-112 with the articles carried: articles is                      *)
(* processed_articles[:limit], categories is built from all of              *)
(* processed_articles                                                       *)
ArticlesResponse(processed_articles, raw, limit) ==
    [kind |-> "ok", articles |-> Take(processed_articles, limit),
     categories |-> organize_by_categories(processed_articles),
     total_articles |-> Len(processed_articles), raw_articles_fetched |-> raw,
     error |-> ""]

(* the degenerate payloads, lines 197-231: no article and no category *)
NoArticlesResponse(kind, raw) ==
    [kind |-> kind, articles |-> <<>>, categories |-> <<>>,
     total_articles |-> 0, raw_articles_fetched |-> raw,
     error |-> Response(kind, 0, raw, 0, 0, NoProfile).error]

(* get_contextual_news, lines 76-118, on the raw articles of proc *)
ProcessAndRespond(limit) ==
    /\ proc.st = "raw"
    /\ LET raw       == proc.raw_articles
           processed == IF raw = <<>> THEN <<>> ELSE process_articles(raw, now)
           payload   == IF raw = <<>> THEN NoArticlesResponse("empty", 0)
                        ELSE IF processed = <<>>
                        THEN NoArticlesResponse("debug", Len(raw))
                        ELSE ArticlesResponse(processed, Len(raw), limit)
       IN  /\ proc' = [proc EXCEPT !.st = "done", !.processed_articles = processed,
                                   !.payload = payload]
           /\ IF payload.kind = "ok"
              THEN /\ memory_cache' = CacheSet(memory_cache, ProcKey, payload, now)
                   /\ written' = Stored(ProcKey, 0, payload)
              ELSE UNCHANGED <<memory_cache, written>>
    /\ UNCHANGED <<now, config, src, calls, attempts, failedAtt, got, gate, heap, sched>>

(* a later get_contextual_news with the same key: lines 64-70 *)
ServeCached ==
    /\ proc.st = "done"
    /\ CacheGet(memory_cache, ProcKey, now) # NoValue
    /\ proc' = [proc EXCEPT !.st = "served",
                            !.served = CacheGet(memory_cache, ProcKey, now)]
    /\ memory_cache' = CacheAfterGet(memory_cache, ProcKey, now)
    /\ UNCHANGED <<now, config, src, calls, written, attempts, failedAtt, got, gate, heap, sched>>

NextProcessor ==
    \/ \E limit \in Limits : ProcessAndRespond(limit)
    \/ ServeCached

SpecProcessor == InitProcessor /\ [][NextProcessor]_vars

----------------------------------------------------------------------------
(* Requests for one profile, one after the other, each with its own limit   *)
(* and force_refresh, on whatever batch the sources return at that time.    *)
(* proc holds the last request: its arguments, whether it was served from   *)
(* the cache, its payload, and (last) the kind and force_refresh of the     *)
(* request before it.                                                       *)

(* what the sources return: nothing, one article that the quality gate     *)
(* rejects, or up to MaxBatch articles that pass it                         *)
ServeBatches ==
    {<<>>, <<[PlainArticle EXCEPT !.title_len = 4]>>}
    \cup {LikeArticles(n) : n \in 1..MaxBatch}

(* a payload that every early return has let through: lines 78-80 (no raw   *)
(* article), 89-92 (no processed article) and 120-122 (an exception) return *)
(* before the cache write of line 115                                       *)
ReachesCacheSet_always(payload) == TRUE

ReachesCacheSet(payload) == payload.kind = "ok"

InitServe ==
    /\ Constructed(<<>>)
    /\ proc = [st |-> "idle", limit |-> None, force_refresh |-> FALSE, hit |-> FALSE,
               payload |-> NoValue, last |-> NoValue]
    /\ heap = NoHeap
    /\ sched = NoSched

(* the payload of lines 72-122 for the raw articles batch; raises: a        *)
(* statement of the try block raises an Exception                           *)
BuildPayload(batch, limit, raises, t) ==
    LET processed == process_articles(batch, t)
    IN  IF raises THEN NoArticlesResponse("error", 0)
        ELSE IF batch = <<>> THEN NoArticlesResponse("empty", 0)
        ELSE IF processed = <<>> THEN NoArticlesResponse("debug", Len(batch))
        ELSE ArticlesResponse(processed, Len(batch), limit)

(* get_contextual_news(profession, location, limit=limit,                   *)
(* force_refresh=force), lines 64-122, from call to return                  *)
Request(limit, force, batch, raises) ==
    LET rd      == ShouldReadCache(force)
        cached  == IF rd THEN CacheGet(memory_cache, ProcKey, now) ELSE NoValue
        cache1  == IF rd THEN CacheAfterGet(memory_cache, ProcKey, now) ELSE memory_cache
        payload == BuildPayload(batch, limit, raises, now)
        summary == IF proc.st = "idle" THEN NoValue
                   ELSE [kind |-> proc.payload.kind, force_refresh |-> proc.force_refresh,
                         hit |-> proc.hit]
    IN  /\ IF cached # NoValue
           THEN /\ proc' = [st |-> "returned", limit |-> limit, force_refresh |-> force,
                            hit |-> TRUE, payload |-> cached, last |-> summary]
                /\ memory_cache' = cache1
                /\ UNCHANGED written
           ELSE /\ proc' = [st |-> "returned", limit |-> limit, force_refresh |-> force,
                            hit |-> FALSE, payload |-> payload, last |-> summary]
                /\ IF ReachesCacheSet(payload)
                   THEN /\ memory_cache' = CacheSet(cache1, ProcKey, payload, now)
                        /\ written' = Stored(ProcKey, 0, payload)
                   ELSE /\ memory_cache' = cache1
                        /\ UNCHANGED written
        /\ UNCHANGED <<now, config, src, calls, attempts, failedAtt, got, gate,
                       heap, sched>>

NextServe ==
    \/ Tick
    \/ \E limit \in Limits, force \in BOOLEAN, batch \in ServeBatches, raises \in BOOLEAN :
          Request(limit, force, batch, raises)

SpecServe == InitServe /\ [][NextServe]_vars

----------------------------------------------------------------------------
(* Event detection and actions: content_processor.py lines 79, 94, 111-116, *)
(* 205-243 and 307-351.  A text is described by what these lines look at:   *)
(*   dates     the substrings matching \d{1,2}[/-]\d{1,2}[/-]\d{4}, in text  *)
(*             order: the separator used, the instant the date names, and   *)
(*             whether "deadline:" or "deadline " stands right before it    *)
(*   locs      the names of the locations list that occur in the text       *)
(*   learning  "course", "tutorial" or "learning" occurs                    *)
(*   career    "job", "career", "hiring" or "apply" occurs                  *)

MaxActions == 3
UrgentDays == 7
SecondsPerDay == 86400
MaxDates == 2

Days(d) == d * SecondsPerDay

Datetime(at) == [kind |-> "datetime", at |-> at]

Str(s) == [kind |-> "str", s |-> s]

(* datetime.isoformat() *)
isoformat(dt) == [kind |-> "iso", at |-> dt.at]

(* line 230 *)
locations == <<"india", "bangalore", "mumbai", "delhi", "karnataka", "belagavi">>

(* datetime.strptime(s, "%d/%m/%Y"): raises ValueError unless the parts are *)
(* separated by "/"                                                         *)
strptime(token) ==
    IF token.sep = "/" THEN Datetime(token.at) ELSE NoValue

(* re.search: the first match, NoValue when there is none *)
FirstMatch(tokens) == IF tokens = <<>> THEN NoValue ELSE tokens[1]

(* _detect_event_info, lines 205-243, at time t *)
detect_event_info(text, t) ==
    LET date_match     == FirstMatch(text.dates)
        dt             == IF date_match = NoValue THEN NoValue ELSE strptime(date_match)
        found          == SelectSeq(locations, LAMBDA l : l \in text.locs)
        deadline_match == FirstMatch(SelectSeq(text.dates, LAMBDA d : d.deadline))
    IN  [is_local  |-> found # <<>>,
         is_urgent |-> dt # NoValue /\ dt.at <= t + Days(UrgentDays),
         date      |-> dt,
         location  |-> IF found = <<>> THEN NoValue ELSE Str(found[1]),
         deadline  |-> IF deadline_match = NoValue THEN NoValue
                       ELSE strptime(deadline_match)]

(* dict.get(key): None when the dict has no such key *)
DictGet(d, key) == IF key \in DOMAIN d THEN d[key] ELSE NoValue

(* dict.get(key, default) *)
DictGetOr(d, key, default) == IF key \in DOMAIN d THEN d[key] ELSE default

NewsAction(type, label) == [type |-> type, label |-> label]

(* generate_actions without the slice of line 351 *)
generate_actions_uncapped(text, event_info) ==
    (IF DictGetOr(event_info, "is_local", FALSE)
     THEN <<NewsAction("add_to_calendar", "Add to Calendar")>> ELSE <<>>)
    \o (IF text.learning
        THEN <<NewsAction("create_task", "Create Learning Task")>> ELSE <<>>)
    \o (IF DictGet(event_info, "deadline") # NoValue
        THEN <<NewsAction("set_reminder", "Set Reminder")>> ELSE <<>>)
    \o (IF text.career
        THEN <<NewsAction("create_task", "Create Career Task")>> ELSE <<>>)

(* _generate_actions, lines 307-351 *)
generate_actions(text, event_info) ==
    Take((IF DictGetOr(event_info, "is_local", FALSE)
          THEN <<NewsAction("add_to_calendar", "Add to Calendar")>> ELSE <<>>)
         \o (IF text.learning
             THEN <<NewsAction("create_task", "Create Learning Task")>> ELSE <<>>)
         \o (IF DictGet(event_info, "deadline") # NoValue
             THEN <<NewsAction("set_reminder", "Set Reminder")>> ELSE <<>>)
         \o (IF text.career
             THEN <<NewsAction("create_task", "Create Career Task")>> ELSE <<>>),
         MaxActions)

(* ProcessedArticle.to_dict, lines 119-124: a datetime is written with      *)
(* isoformat(), None stays None                                             *)
IsoOrNone(dt) == IF dt # NoValue THEN isoformat(dt) ELSE NoValue

(* _process_single_article lines 79, 94 and 111-116, then to_dict: the      *)
(* event fields of the article's dict in the payload                        *)
event_fields(text, t) ==
    LET event_info == detect_event_info(text, t)
    IN  [is_local_event    |-> DictGetOr(event_info, "is_local", FALSE),
         is_urgent         |-> DictGetOr(event_info, "is_urgent", FALSE),
         event_date        |-> IsoOrNone(DictGet(event_info, "event_date")),
         event_location    |-> DictGet(event_info, "location"),
         event_deadline    |-> IsoOrNone(DictGet(event_info, "deadline")),
         available_actions |-> generate_actions(text, event_info)]

(* the dates a text names, relative to the start of the run *)
DateOffsets == {Days(0 - 30), Days(3), Days(UrgentDays), Days(UrgentDays + 1)}

DateTokens ==
    [sep : {"/", "-"}, at : DateOffsets, deadline : BOOLEAN]

Texts ==
    [dates : SeqsUpTo(DateTokens, MaxDates), locs : SUBSET {"india", "delhi"},
     learning : BOOLEAN, career : BOOLEAN]

InitEvents ==
    /\ Constructed(<<>>)
    /\ \E text \in Texts :
          proc = [st |-> "text", text |-> text, at |-> 0,
                  event_info |-> NoValue, article |-> NoValue]
    /\ heap = NoHeap
    /\ sched = NoSched

(* one article's text goes through _process_single_article *)
ProcessEvents ==
    /\ proc.st = "text"
    /\ proc' = [proc EXCEPT !.st = "processed", !.at = now,
                            !.event_info = detect_event_info(proc.text, now),
                            !.article = event_fields(proc.text, now)]
    /\ UNCHANGED <<now, config, src, memory_cache, calls, written, attempts, failedAtt,
                   got, gate, heap, sched>>

NextEvents ==
    \/ Tick
    \/ ProcessEvents

SpecEvents == InitEvents /\ [][NextEvents]_vars

----------------------------------------------------------------------------
(* get_source_health, lines 170-195, with exact fractions <<num, den>>.     *)

RatAdd(a, b) == <<a[1] * b[2] + b[1] * a[2], a[2] * b[2]>>

RatLess(a, b) == a[1] * b[2] < b[1] * a[2]

RECURSIVE TotalHealth(_, _, _)
TotalHealth(cfg, st, i) ==
    IF i > Len(cfg) THEN <<0, 1>>
    ELSE IF cfg[i].is_active
    THEN RatAdd(get_health_score(st[cfg[i].name]), TotalHealth(cfg, st, i + 1))
    ELSE TotalHealth(cfg, st, i + 1)

overall_health(cfg, st) ==
    LET active == Cardinality({i \in DOMAIN cfg : cfg[i].is_active})
        total  == TotalHealth(cfg, st, 1)
    IN  IF active > 0 THEN <<total[1], total[2] * active>> ELSE <<0, 1>>

----------------------------------------------------------------------------
(* Properties *)

(* The fetches of source s that are suspended in their network reads *)
InFlight(s) ==
    Cardinality({ci \in CallIds \X (DOMAIN config) :
                    /\ ci[2] \in DOMAIN calls[ci[1]].tasks
                    /\ calls[ci[1]].tasks[ci[2]].src = s
                    /\ calls[ci[1]].tasks[ci[2]].st = "io"})

Count(seq, x) == Cardinality({i \in DOMAIN seq : seq[i] = x})

IsPermutation(s1, s2) ==
    /\ Len(s1) = Len(s2)
    /\ \A i \in DOMAIN s1 : Count(s1, s1[i]) = Count(s2, s1[i])

(* C1, as claimed: of any two finished calls with the same profession,      *)
(* location and interests, both with force_refresh = false, the second made *)
(* less than the TTL after the first, the second returns the first one's    *)
(* payload and passes no adapter's gate.                                    *)
C1_SecondCallIdentical ==
    \A a, b \in CallIds :
        ( /\ a < b
          /\ calls[a].st = "done" /\ calls[b].st = "done"
          /\ calls[a].profile = calls[b].profile
          /\ ~calls[a].force_refresh /\ ~calls[b].force_refresh
          /\ calls[b].start - calls[a].start < ttl_seconds )
        => /\ calls[b].payload = calls[a].payload
           /\ calls[b].fetched = {}

(* C1, amended: a call with force_refresh = false that is made less than    *)
(* the TTL after a payload was stored under its key, that payload being the *)
(* last one stored under the key, returns at once with the payload the      *)
(* storing call returned, and runs no fan-out: no fetch task is created and *)
(* no adapter's gate is passed.                                             *)
C1_LiveEntryServed ==
    \A b \in CallIds :
        (calls[b].st # "idle" /\ ~calls[b].force_refresh /\ calls[b].liveBy # 0)
        => /\ calls[b].st = "done"
           /\ calls[b].payload = calls[calls[b].liveBy].payload
           /\ ~calls[b].fanout
           /\ calls[b].fetched = {}
           /\ calls[b].tasks = <<>>

(* a second call served from the entry an earlier call stored *)
C1_Witness ==
    \E b \in CallIds :
        /\ calls[b].st = "done" /\ ~calls[b].force_refresh
        /\ calls[b].liveBy # 0 /\ calls[b].liveBy # b
        /\ calls[b].profile = calls[calls[b].liveBy].profile
        /\ calls[b].payload.kind = "ok"

(* C2: a call with force_refresh = true never consults the cache and always *)
(* runs the orchestrator fan-out; when it ends with raw articles, the       *)
(* content processor has run.                                               *)
C2_ForceBypassesCache ==
    \A c \in CallIds :
        (calls[c].st # "idle" /\ calls[c].force_refresh)
        => /\ ~calls[c].readCache
           /\ calls[c].fanout
           /\ (calls[c].st = "done" /\ calls[c].raw > 0 => calls[c].processed)

(* a forced call that found an unexpired entry under its key and still      *)
(* fetched and processed                                                    *)
C2_Witness ==
    \E c \in CallIds :
        /\ calls[c].st = "done" /\ calls[c].force_refresh
        /\ calls[c].liveBy # 0
        /\ calls[c].raw > 0 /\ calls[c].processed

(* C4, as claimed: when every fetch attempt of an active source has failed  *)
(* (caught inside the adapter or raised), then once a call that attempted   *)
(* the source has returned, overall_health is below 1.0 and the call's      *)
(* payload is not the error payload.                                        *)
C4_FailingSourceLowersHealth ==
    \A c \in CallIds, s \in Sources :
        ( /\ calls[c].st = "done" /\ s \in calls[c].fetched
          /\ ConfigOf(config, s).is_active
          /\ attempts[s] > 0 /\ failedAtt[s] = attempts[s] )
        => /\ RatLess(overall_health(config, src), <<1, 1>>)
           /\ calls[c].payload.kind # "error"

(* C5, as claimed: a fetch whose network read or parse fails ends by        *)
(* returning an empty list, with the adapter's error_count one higher.      *)
C5_FailureCountedAndEmpty ==
    [][ \A c \in CallIds, i \in DOMAIN config :
          ( /\ i \in DOMAIN calls[c].tasks /\ calls[c].tasks[i].st = "io"
            /\ i \in DOMAIN calls'[c].tasks /\ calls'[c].tasks[i].failed )
          => /\ calls'[c].tasks[i].st = "ret"
             /\ calls'[c].tasks[i].n = 0
             /\ src'[calls[c].tasks[i].src].error_count
                  = src[calls[c].tasks[i].src].error_count + 1 ]_vars

(* C6, as claimed: whenever no fetch of a source is in flight, its          *)
(* fetch_count is the number of fetch attempts that passed its gate.        *)
C6_RecordedOncePerAttempt ==
    \A s \in Sources : InFlight(s) = 0 => src[s].fetch_count = attempts[s]

(* C8, as claimed: at most one fetch of an adapter is in flight at a time,  *)
(* over all requests on the shared service.                                 *)
C8_SingleFetchInFlight ==
    \A s \in Sources : InFlight(s) <= 1

(* C9, as claimed: two requests with the same profession and location and   *)
(* interests that are permutations of each other use the same cache key.    *)
C9_PermutedInterestsShareKey ==
    \A a, b \in CallIds :
        ( /\ calls[a].st # "idle" /\ calls[b].st # "idle"
          /\ calls[a].profile.profession = calls[b].profile.profession
          /\ calls[a].profile.location = calls[b].profile.location
          /\ IsPermutation(calls[a].profile.interests, calls[b].profile.interests) )
        => calls[a].key = calls[b].key

(* the sum of the yields of the tasks that returned a list *)
RECURSIVE SumReturned(_, _)
SumReturned(tasks, todo) ==
    IF todo = {} THEN 0
    ELSE LET i == CHOOSE j \in todo : TRUE
         IN  (IF tasks[i].st = "ret" THEN tasks[i].n ELSE 0)
             + SumReturned(tasks, todo \ {i})

(* C3: when a fetch task of an orchestrator run ended with an exception,    *)
(* every sibling task still ran to its own return, and the merged list has  *)
(* as many articles as the siblings returned together.                      *)
C3_RaisedTaskIsolated ==
    [][ \A c \in CallIds :
          (calls[c].st = "gather" /\ calls'[c].st = "done" /\ calls[c].raised)
          => /\ \A i \in DOMAIN calls[c].tasks :
                   calls[c].tasks[i].st = "ret"
                   \/ (calls[c].tasks[i].st = "exc" /\ calls[c].tasks[i].src = "google_news")
             /\ calls'[c].raw = SumReturned(calls[c].tasks, DOMAIN calls[c].tasks) ]_vars

(* a run in which the Google task raised and both feeds' articles were merged *)
C3_Witness ==
    \E c \in CallIds :
        /\ calls[c].st = "done" /\ calls[c].raised
        /\ calls[c].fetched = Sources
        /\ calls[c].raw = 2 * MaxYield

(* C7: can_fetch() is false for an inactive source; for an active source    *)
(* with rate limit R it is false while less than 1/R hours have passed      *)
(* since last_fetch, and true from 1/R hours on or when the source was      *)
(* never fetched; for an active source without rate limit it is true.       *)
C7_GateAsSpecified ==
    gate.asked =>
        LET c == config[1]
        IN  /\ ~c.is_active => ~gate.result
            /\ (c.is_active /\ c.rate_limit \in {None, 0}) => gate.result
            /\ (c.is_active /\ c.rate_limit \notin {None, 0} /\ gate.last = None)
                  => gate.result
            /\ (c.is_active /\ c.rate_limit \notin {None, 0} /\ gate.last # None)
                  => (gate.result <=>
                        (gate.at - gate.last) * c.rate_limit >= SecondsPerHour)

(* the gate asked exactly 1/R hours after the last fetch of a limited source *)
C7_Witness ==
    /\ gate.asked /\ gate.result
    /\ config[1].is_active /\ config[1].rate_limit \notin {None, 0}
    /\ gate.last # None
    /\ (gate.at - gate.last) * config[1].rate_limit = SecondsPerHour

(* C10: get returns a value exactly when the key was last set less than the *)
(* TTL ago, and then the value of that last set; a key set at least the TTL *)
(* ago, or never, is a miss.  This holds also for a value set over an       *)
(* expired entry.                                                           *)
C10_NoExpiredValue ==
    /\ (got.age # None /\ got.age < ttl_seconds) => got.value = got.expected
    /\ (got.age = None \/ got.age >= ttl_seconds) => got.value = NoValue

(* a get that returned the value set over an expired entry *)
C10_Witness ==
    /\ got.value # NoValue
    /\ got.afterExpiry
    /\ got.age > 0

(* C11: when the cache backend raises on a call's read, the read is a miss: *)
(* the call raises nothing and runs the fetch+process cycle; when the       *)
(* backend raises on the call's write, the call still returns the payload   *)
(* it computed; and while no write has succeeded, every call runs the       *)
(* fetch+process cycle (an always-miss cache).                              *)
C11_BackendFailureIsMiss ==
    \A c \in CallIds :
        /\ calls[c].st # "raised"
        /\ (calls[c].st # "idle" /\ calls[c].getRaised) => calls[c].fanout
        /\ (calls[c].st = "done" /\ calls[c].setRaised)
              => /\ calls[c].payload.kind = "ok"
                 /\ calls[c].payload.total_articles > 0
                 /\ calls[c].payload.raw_articles_fetched = calls[c].raw
        /\ (calls[c].st # "idle" /\ written = <<>>) => calls[c].fanout

(* a second call that, after a first call whose write failed, met a failing *)
(* read and a failing write and returned its computed payload               *)
C11_Witness ==
    \E c \in CallIds :
        /\ c > 1 /\ calls[1].st = "done" /\ calls[1].setRaised
        /\ calls[c].st = "done" /\ ~calls[c].force_refresh
        /\ calls[c].profile = calls[1].profile
        /\ calls[c].getRaised /\ calls[c].setRaised
        /\ calls[c].payload.kind = "ok"

(* C12: no call ends with an exception that reaches its caller; every call  *)
(* that returns, returns a payload (articles, categories, metadata), and    *)
(* when it is the empty, the debug or the error payload, its articles list  *)
(* is empty, total_articles is 0 and the metadata has an error text.        *)
C12_AlwaysAPayload ==
    \A c \in CallIds :
        /\ calls[c].st # "raised"
        /\ calls[c].st = "done"
              => /\ calls[c].payload.kind \in {"ok", "empty", "debug", "error"}
                 /\ (calls[c].fanout /\ calls[c].raw = 0)
                       => calls[c].payload.kind = "empty"
                 /\ calls[c].payload.kind # "ok"
                       => /\ calls[c].payload.articles = 0
                          /\ calls[c].payload.total_articles = 0
                          /\ calls[c].payload.error # ""

(* one call returned the error payload and the other the empty or the debug *)
(* payload                                                                  *)
C12_Witness ==
    \E a, b \in CallIds :
        /\ calls[a].st = "done" /\ calls[a].payload.kind = "error"
        /\ calls[b].st = "done" /\ calls[b].payload.kind \in {"empty", "debug"}

(* the items a payload holds: its articles list and every categories group *)
ItemsOf(payload) ==
    {payload.articles[i] : i \in DOMAIN payload.articles}
    \cup UNION {{payload.categories[c][i] : i \in DOMAIN payload.categories[c]} :
                   c \in DOMAIN payload.categories}

(* the payloads returned so far: the one built and the one served from the  *)
(* cache                                                                    *)
Returned == {proc.payload, proc.served} \ {NoValue}

C14_ScoresInRange ==
    /\ \A i \in DOMAIN proc.raw_articles :
          /\ calculate_relevance_score(proc.raw_articles[i]) \in 0..100
          /\ calculate_quality_score(proc.raw_articles[i], now) \in 0..100
    /\ \A payload \in Returned : \A a \in ItemsOf(payload) :
          /\ a.relevance_score \in 0..100
          /\ a.quality_score \in 0..100

(* a returned item of quality 1.0 whose article matched more interests than *)
(* the interests term counts                                                *)
C14_Witness ==
    /\ proc.st = "done" /\ Len(proc.raw_articles) = 1
    /\ proc.raw_articles[1].interests = MaxInterests
    /\ proc.raw_articles[1].prof /\ proc.raw_articles[1].loc
    /\ \E a \in ItemsOf(proc.payload) : a.quality_score = 100 /\ a.relevance_score >= 90

(* C15: the articles list of every returned payload is in descending order  *)
(* of 0.6 relevance_score + 0.4 quality_score, also when cut to limit.      *)
C15_SortedByScore ==
    \A payload \in Returned :
        \A i \in DOMAIN payload.articles :
            i < Len(payload.articles)
            => WeightedScore(payload.articles[i]) >= WeightedScore(payload.articles[i + 1])

(* a payload cut to limit whose articles arrived in another order than they *)
(* are returned in                                                          *)
C15_Witness ==
    /\ proc.st = "done" /\ proc.payload.kind = "ok"
    /\ Len(proc.payload.articles) >= 2
    /\ Len(proc.payload.articles) < proc.payload.total_articles
    /\ WeightedScore(proc.payload.articles[1]) > WeightedScore(proc.payload.articles[2])
    /\ ProcessEach(proc.raw_articles, now) # proc.processed_articles

(* C16, as claimed: of two items of the output of process_articles with     *)
(* equal weighted score, the one published later comes first.               *)
C16_TieBrokenByRecency ==
    \A i, j \in DOMAIN proc.processed_articles :
        ( /\ i < j
          /\ WeightedScore(proc.processed_articles[i])
               = WeightedScore(proc.processed_articles[j]) )
        => proc.processed_articles[i].published_at
             >= proc.processed_articles[j].published_at

(* C17: in every returned payload each categories group holds only items of *)
(* its category, at most 10 of them, in descending order of                 *)
(* relevance_score.                                                         *)
C17_CategoryGroups ==
    \A payload \in Returned : \A c \in DOMAIN payload.categories :
        LET group == payload.categories[c]
        IN  /\ \A i \in DOMAIN group : group[i].category = c
            /\ Len(group) <= CategoryCap
            /\ \A i \in DOMAIN group :
                  i < Len(group) => group[i].relevance_score >= group[i + 1].relevance_score

(* a group cut to 10 out of more items of its category, of differing        *)
(* relevance                                                                *)
C17_Witness ==
    /\ proc.st = "done" /\ proc.payload.kind = "ok"
    /\ \E c \in DOMAIN proc.payload.categories :
          /\ Len(proc.payload.categories[c]) = CategoryCap
          /\ Cardinality({i \in DOMAIN proc.processed_articles :
                            proc.processed_articles[i].category = c}) > CategoryCap
          /\ proc.payload.categories[c][1].relevance_score
               > proc.payload.categories[c][CategoryCap].relevance_score

(* C19, as claimed: the output of process_articles has as many items as     *)
(* there are raw articles that are processed without error and pass the     *)
(* gate, and total_articles is that number.                                 *)
C19_OnlyGateDiscards ==
    (proc.st # "raw" /\ proc.st # "idle")
    => LET passing == Cardinality({i \in DOMAIN proc.raw_articles :
                         process_single_article(proc.raw_articles[i], now) # NoArticle})
       IN  /\ Len(proc.processed_articles) = passing
           /\ proc.payload.total_articles = passing

(* C18, as claimed: when a run ends with a payload that is not the empty    *)
(* one, its sources_used is the number of sources whose fetch task of this  *)
(* run returned at least one raw article.                                   *)
C18_SourcesUsedCountsProducers ==
    [][ \A c \in CallIds :
          ( /\ calls[c].st = "gather" /\ calls'[c].st = "done"
            /\ calls'[c].payload.kind \in {"ok", "debug"} )
          => calls'[c].payload.sources_used = DebugSourcesUsed(calls[c].tasks) ]_vars

(* C20: every adapter has 0 <= error_count <= fetch_count at all times,     *)
(* neither counter ever decreases, and its health score is                  *)
(* 1 - error_count/fetch_count (1 when fetch_count is 0), a value in [0, 1]. *)
C20_CountersConsistent ==
    /\ [](\A s \in Sources :
            LET f == src[s].fetch_count
                e == src[s].error_count
                h == get_health_score(src[s])
            IN  /\ 0 <= e /\ e <= f
                /\ h[2] > 0 /\ 0 <= h[1] /\ h[1] <= h[2]
                /\ f = 0 => h = <<1, 1>>
                /\ f > 0 => h[1] * f = (f - e) * h[2])
    /\ [][ \A s \in Sources :
             /\ src'[s].fetch_count >= src[s].fetch_count
             /\ src'[s].error_count >= src[s].error_count ]_vars

(* an adapter with failed and successful fetches on record *)
C20_Witness ==
    \E s \in Sources :
        /\ 0 < src[s].error_count
        /\ src[s].error_count < src[s].fetch_count
        /\ get_health_score(src[s]) = <<src[s].fetch_count - src[s].error_count,
                                        src[s].fetch_count>>

----------------------------------------------------------------------------
(* C21, first half: a request that started its fetch cycle returns.        *)
C21_EveryCallReturns ==
    (calls[1].st \in {"created", "gather"}) ~> (calls[1].st \in {"done", "raised"})

(* C21, as claimed: every request returns, and a fetch whose network read   *)
(* hits its timeout ends like a failed fetch: it returns no item, its       *)
(* adapter's error_count is one higher, and the other tasks are untouched.  *)
C21_TimedOutFetchIsFailedFetch ==
    /\ C21_EveryCallReturns
    /\ [][ \A i \in DOMAIN config :
              ( /\ i \in DOMAIN calls[1].tasks /\ calls[1].tasks[i].st = "io"
                /\ i \in DOMAIN calls'[1].tasks /\ calls'[1].tasks[i].timed_out )
              => /\ calls'[1].tasks[i].st = "ret"
                 /\ calls'[1].tasks[i].n = 0
                 /\ src'[calls[1].tasks[i].src].error_count
                      = src[calls[1].tasks[i].src].error_count + 1
                 /\ \A j \in DOMAIN calls[1].tasks :
                        j # i => calls'[1].tasks[j] = calls[1].tasks[j] ]_vars

(* C22, as claimed: between two writes of a key the payload held under it   *)
(* is the payload the last set wrote, and a hit returns exactly that        *)
(* payload, whatever the callers did with the payloads they received.       *)
C22_CachedPayloadUnchanged ==
    /\ \A key \in DOMAIN memory_cache :
           heap[memory_cache[key].value.id] = written[key].value
    /\ got.key # "" => got.value = got.expected

(* the priority order of the four actions *)
ActionPriority ==
    <<"Add to Calendar", "Create Learning Task", "Set Reminder", "Create Career Task">>

(* the conditions of the four actions, in priority order *)
ActionConditions ==
    <<proc.event_info.is_local, proc.text.learning,
      proc.event_info.deadline # NoValue, proc.text.career>>

(* C23: an article has at most 3 actions, in priority order, and the k-th   *)
(* action of the priority order is present exactly when its condition holds *)
(* and fewer than 3 of the conditions before it hold.                       *)
C23_ActionsCappedInPriorityOrder ==
    proc.st = "processed" =>
        LET acts == proc.article.available_actions
            rank(a) == CHOOSE k \in 1..4 : ActionPriority[k] = a.label
        IN  /\ Len(acts) <= 3
            /\ \A i, j \in DOMAIN acts : i < j => rank(acts[i]) < rank(acts[j])
            /\ \A k \in 1..4 :
                   (\E i \in DOMAIN acts : acts[i].label = ActionPriority[k])
                   <=> ( /\ ActionConditions[k]
                         /\ Cardinality({j \in 1..(k - 1) : ActionConditions[j]}) < 3 )

(* all four conditions hold and the career task is the one left out *)
C23_Witness ==
    /\ proc.st = "processed"
    /\ \A k \in 1..4 : ActionConditions[k]
    /\ Len(proc.article.available_actions) = 3
    /\ \A i \in 1..3 : proc.article.available_actions[i].label = ActionPriority[i]

(* the distance between two instants *)
Distance(a, b) == IF a < b THEN b - a ELSE a - b

(* C24, as claimed: an article is urgent exactly when its text names a date *)
(* and that date is at most 7 days away from the processing time.           *)
C24_UrgentIffDateWithinSevenDays ==
    proc.st = "processed" =>
        ( proc.article.is_urgent
          <=> ( /\ proc.text.dates # <<>>
                /\ Distance(proc.text.dates[1].at, proc.at) <= Days(UrgentDays) ) )

(* C29, as claimed: a date, location or deadline that the detector found is *)
(* carried by the article's event_date, event_location, event_deadline; an  *)
(* urgent article has an event_date.                                        *)
C29_DetectedEventFieldsCarried ==
    proc.st = "processed" =>
        /\ proc.event_info.date # NoValue
             => proc.article.event_date = isoformat(proc.event_info.date)
        /\ proc.article.is_urgent => proc.article.event_date # NoValue
        /\ proc.event_info.location # NoValue
             => proc.article.event_location = proc.event_info.location
        /\ proc.event_info.deadline # NoValue
             => proc.article.event_deadline = isoformat(proc.event_info.deadline)

(* C25, as claimed: two fetches of a source with rate limit R (per hour)    *)
(* that issued network reads started at least 1/R hours apart.              *)
C25_FetchesSpacedByRateLimit ==
    \A a, b \in CallIds :
    \A i \in DOMAIN calls[a].tasks, j \in DOMAIN calls[b].tasks :
        LET x == calls[a].tasks[i]
            y == calls[b].tasks[j]
        IN  ( /\ a # b /\ x.src = y.src
              /\ x.started # None /\ y.started # None
              /\ ConfigOf(config, x.src).rate_limit # None )
            => Distance(x.started, y.started) * ConfigOf(config, x.src).rate_limit
                 >= SecondsPerHour

(* C26, as claimed: a request with limit n returns at most n articles, from *)
(* the fetch cycle and from the cache alike.                                *)
C26_AtMostLimitArticles ==
    proc.st = "returned" => Len(proc.payload.articles) <= proc.limit

(* the payloads without articles: empty, debug and error response *)
Degenerate(kind) == kind \in {"empty", "debug", "error"}

(* C27, first part: every payload written to the cache and every payload    *)
(* served from it has articles and no error; a degenerate payload is never  *)
(* stored.                                                                  *)
C27_OnlyBuiltPayloadsCached ==
    /\ \A key \in DOMAIN memory_cache :
           /\ ~Degenerate(memory_cache[key].value.kind)
           /\ memory_cache[key].value.articles # <<>>
           /\ memory_cache[key].value.error = ""
    /\ \A key \in DOMAIN written :
           ~Degenerate(written[key].value.kind) /\ written[key].value.articles # <<>>
    /\ (proc.st = "returned" /\ proc.hit)
          => proc.payload.articles # <<>> /\ proc.payload.error = ""

ProfileOf(payload) ==
    [profession |-> payload.profession, location |-> payload.location,
     interests |-> payload.interests]

(* C28, as claimed: requests whose profiles differ have different cache     *)
(* keys, and a request that returns articles returns a payload computed for *)
(* its own profile.                                                         *)
C28_DistinctProfilesDistinctKeys ==
    /\ \A a, b \in CallIds :
           ( /\ calls[a].st # "idle" /\ calls[b].st # "idle"
             /\ calls[a].profile # calls[b].profile )
           => calls[a].key # calls[b].key
    /\ \A c \in CallIds :
           (calls[c].st = "done" /\ calls[c].payload.kind = "ok")
           => ProfileOf(calls[c].payload) = calls[c].profile

(* a loop that is updating, or that will update again when its sleep ends *)
ActiveLoop(l) ==
    \/ sched.loops[l].st \in {"news", "pause"}
    \/ sched.loops[l].st = "sleeping" /\ sched.is_running

(* C30, second half: once the scheduler is stopped for good, every loop     *)
(* exits.                                                                   *)
C30_StoppedLoopsExit ==
    <>[](~sched.is_running)
        => <>[](\A l \in DOMAIN sched.loops : sched.loops[l].st = "exited")

(* C30, as claimed: at most one background loop is active at a time, and    *)
(* after a stop with no later start every loop exits.                       *)
C30_AtMostOneActiveLoop ==
    /\ [](Cardinality({l \in DOMAIN sched.loops : ActiveLoop(l)}) <= 1)
    /\ C30_StoppedLoopsExit

====
